---- MODULE Spec2Model ----
(***************************************************************************)
(* The background job queue of apex-boilerplate: the JobQueue port         *)
(* (apex-core/src/ports/job_queue.rs) and its two backends,                *)
(* InMemoryJobQueue (apex-infra/src/jobs/memory.rs) and RedisJobQueue      *)
(* (apex-infra/src/jobs/redis.rs).                                         *)
(*                                                                         *)
(* Producers call enqueue, start_worker spawns config.workers loops, and   *)
(* every atomic access to shared state (a counter, the channel, the Redis  *)
(* list, the receiver mutex, the running flag) is one step, so that every  *)
(* interleaving of the tasks of a multi-threaded runtime is a behaviour.   *)
(*                                                                         *)
(* The four AtomicUsize counters are held as the two's-complement reading  *)
(* of their 64-bit value: fetch_add and fetch_sub wrap, so -1 stands for   *)
(* usize::MAX, and comparisons are the unsigned ones (UGe).  A load reads   *)
(* the latest value of its counter.                                        *)
(*                                                                         *)
(* ledger is a history variable: it records, per job, what the code did    *)
(* with it, and no action reads it to decide anything.                     *)
(***************************************************************************)
EXTENDS Integers, Sequences, FiniteSets, TLC

(* ------------------------------ bounds --------------------------------- *)
MaxJobs == 2            \* jobs the producers create
NProducers == 2         \* enqueue calls that can be in progress at once
MaxWorkers == 2         \* largest config.workers
MaxSizeBound == 1       \* largest config.max_size (0 = unlimited)
MaxAttemptsBound == 2   \* largest argument of with_max_attempts
MaxFaults == 1          \* Redis commands that answer with an error
MaxForeign == 1         \* list entries written by something other than enqueue
MaxStatsCalls == 1      \* stats() calls
MaxDelay == 1           \* largest argument of Job::delayed, in clock ticks
MaxClock == 2           \* clock ticks

(* ------------------------- program constants --------------------------- *)
DefaultMaxAttempts == 3
MinChannelCapacity == 100
RetryBaseDelayMs == 100

BurstJobs == MinChannelCapacity + 1

Workers == 1..MaxWorkers
None == <<>>
NoJob == [id |-> 0, job_type |-> "", payload |-> <<>>, attempts |-> 0, max_attempts |-> 0,
          created_at |-> 0, scheduled_at |-> None]
NoEntry == <<>>
Malformed == <<"not a job">>
Outcomes == {"Success", "Retry", "Failed"}
NoStats == [pending |-> 0, processing |-> 0, completed |-> 0, failed |-> 0]
NoObs == [pc |-> "idle", calls |-> 0, value |-> NoStats]
NoTwin == [set |-> FALSE, max_size |-> 0, results |-> <<>>, calls |-> <<>>, rets |-> <<>>,
           completed |-> 0, failed |-> 0]

VARIABLES
    backend,    \* "memory" | "redis": which JobQueue implementation
    max_size,   \* InMemoryJobQueueConfig.max_size
    workers,    \* config.workers
    stats,      \* JobStats: pending, processing, completed, failed
    chan,       \* memory: the mpsc channel (job_sender / job_receiver)
    rxLock,     \* memory: holder of the Mutex around the receiver, 0 = free
    backoff,    \* memory: jobs held by spawned retry tasks (sleeping or sending)
    list,       \* redis: the list at pending_key, serialized jobs
    running,    \* redis: the running flag
    faults,     \* redis: commands that have failed so far
    started,    \* start_worker has been called
    wpc,        \* per worker loop: position in the loop
    wjob,       \* per worker loop: the local `job`
    wraw,       \* redis, per worker loop: the local `job_json`
    wres,       \* per worker loop: the JobResult the handler returned
    enq,        \* per enqueue call, in the order the calls began: position and job
    foreign,    \* redis: entries something else has pushed to the list so far
    dropped,    \* memory: the InMemoryJobQueue value has been dropped
    obs,        \* the stats() call: position, calls so far, the QueueStats read
    now,        \* the clock, chrono::Utc::now()
    twin,       \* what an in-memory queue did with the same calls and handler
    ledger      \* history, per job id: what happened to the job

vars == <<backend, max_size, workers, stats, chan, rxLock, backoff, list, running,
          faults, started, wpc, wjob, wraw, wres, enq, foreign, dropped, obs, now, twin, ledger>>

cfgVars == <<backend, max_size, workers>>
memVars == <<chan, rxLock, backoff>>
redisVars == <<list, running, faults>>
workerVars == <<wpc, wjob, wraw, wres>>
envVars == <<foreign, dropped, obs, now, twin>>

(* ------------------------------- Job ----------------------------------- *)
\* the job_type and the payload the caller gives its id-th job
JobTypeOf(id) == IF id % 2 = 1 THEN "email" ELSE "report"
PayloadOf(id) == <<"to", id>>

\* Job::new(job_type, payload), then Job::with_max_attempts(k)
NewJob(id, k) ==
    [id |-> id, job_type |-> JobTypeOf(id), payload |-> PayloadOf(id), attempts |-> 0,
     max_attempts |-> k, created_at |-> now, scheduled_at |-> None]

\* Job::delayed(delay)
Delayed(job, delay) == [job EXCEPT !.scheduled_at = <<now + delay>>]

\* the job a caller builds: Job::new, with_max_attempts(k) and, unless d is
\* None, delayed(d)
BuildJob(id, k, d) == IF d = None THEN NewJob(id, k) ELSE Delayed(NewJob(id, k), d[1])

\* the callers that never use Job::delayed
NoDelay == {None}

\* with or without Job::delayed
DelayChoices == {None} \cup {<<d>> : d \in 1..MaxDelay}

\* the values max_attempts can take: Job::new's default or with_max_attempts(k)
MaxAttemptsChoices == (0..MaxAttemptsBound) \cup {DefaultMaxAttempts}

\* chrono's Serialize for DateTime<Utc>: an RFC 3339 string that keeps the
\* nanoseconds; and its Deserialize
TimeToJson(t) == <<"rfc3339", t>>
TimeFromJson(s) == s[2]

\* Option<DateTime<Utc>>: null or the timestamp
OptionToJson(o) == IF o = None THEN <<"null">> ELSE TimeToJson(o[1])
OptionFromJson(s) == IF s = <<"null">> THEN None ELSE <<TimeFromJson(s)>>

\* mutant: attempts is left out of the serialized job and reads back as 0
ToJsonSkipsAttempts(job) ==
    <<job.id, job.job_type, job.payload, 0, job.max_attempts,
      TimeToJson(job.created_at), OptionToJson(job.scheduled_at)>>

\* serde_json::to_string(&job): the fields in declaration order
ToJson(job) ==
    <<job.id, job.job_type, job.payload, job.attempts, job.max_attempts,
      TimeToJson(job.created_at), OptionToJson(job.scheduled_at)>>

\* serde_json::from_str::<Job>(&job_json) returns Ok
ValidJson(s) == Len(s) = 7

\* mutant: scheduled_at is not read back
FromJsonSkipsScheduledAt(s) ==
    [id |-> s[1], job_type |-> s[2], payload |-> s[3], attempts |-> s[4],
     max_attempts |-> s[5], created_at |-> TimeFromJson(s[6]), scheduled_at |-> None]

\* serde_json::from_str::<Job>(&job_json), the value inside Ok
FromJson(s) ==
    [id |-> s[1], job_type |-> s[2], payload |-> s[3], attempts |-> s[4],
     max_attempts |-> s[5], created_at |-> TimeFromJson(s[6]),
     scheduled_at |-> OptionFromJson(s[7])]

(* ------------------------------ atomics -------------------------------- *)
\* mutant: the increment is lost
FetchAddLost(v) == v

FetchAdd(v) == v + 1

\* mutant: the decrement is lost
FetchSubLost(v) == v

FetchSub(v) == v - 1

\* a >= b on usize, a held in two's complement, b a configured size
UGe(a, b) == a < 0 \/ a >= b

\* mpsc::channel(config.max_size.max(100))
ChannelCapacity(ms) == IF ms > MinChannelCapacity THEN ms ELSE MinChannelCapacity

\* mutant: the size check compares with > instead of >=
QueueFullStrict(current_size, ms) == ms > 0 /\ current_size > ms

\* mutant: the size check is made whatever max_size is
QueueFullUnguarded(current_size, ms) == UGe(current_size, ms)

\* enqueue's size check: the queue is full
QueueFull(current_size, ms) == ms > 0 /\ UGe(current_size, ms)

\* mutant: the receive hands out the head and leaves it in place
DequeuePeek(q) == q

\* what a receive leaves in the channel or the list
Dequeue(q) == Tail(q)

\* mutant: the send reports success and the job is gone
PushLost(q, x) == q

\* mutant: the job goes to the head
PushFront(q, x) == <<x>> \o q

\* mpsc send / RPUSH: the job goes to the tail
Push(q, x) == Append(q, x)

\* the retry decision of both worker loops
ShouldRetry(job) == job.attempts < job.max_attempts

\* mutant: Failed is given another attempt while attempts are left
DispositionRetriesFailed(r, job) ==
    IF r = "Success" THEN "complete"
    ELSE IF ShouldRetry(job) THEN "requeue" ELSE "fail"

\* the match on the JobResult in both worker loops: which arm runs
Disposition(r, job) ==
    IF r = "Success" THEN "complete"
    ELSE IF r = "Retry" /\ ShouldRetry(job) THEN "requeue" ELSE "fail"

(* ------------------------------ history -------------------------------- *)
NewEntry(k, snapshot, alone) ==
    [max_attempts |-> k,      \* as created
     job |-> NoJob,           \* the job passed to enqueue, once it is on its way
     result |-> "InFlight",   \* what enqueue returned
     calls |-> <<>>,          \* job.attempts as seen by each handler invocation
     rets |-> <<>>,           \* the outcome of each handler invocation
     pushes |-> 0,            \* times the job was put into the channel / list
     slept |-> <<>>,          \* ms slept between a Retry outcome and each re-push
     lost |-> 0,              \* re-submissions after Retry that failed
     panics |-> 0,            \* handler invocations that panicked
     late |-> 0,              \* handler returns after the running flag was cleared
     completed |-> 0,         \* times counted in completed
     failed |-> 0,            \* times counted in failed
     base |-> snapshot,       \* the counters when enqueue was called, if solo
     solo |-> alone]          \* nothing else was or has since been in progress

Ids == 1..Len(ledger)

\* the enqueue calls that have not returned
InFlight == {c \in 1..Len(enq) : enq[c].pc # "done"}

\* the identity of the next job (Job::new draws a fresh uuid)
nextId == Len(enq) + 1

Returned == [pc |-> "done", job |-> NoJob]

IdlePcs == {"unspawned", "lock", "recv", "check", "blpop"}

\* the worker loops whose task exists: spawned, not unwound by a panic, not
\* left by break
LiveWorkers == {w \in Workers : wpc[w] \notin {"unspawned", "panicked", "stopped"}}

\* memory: the handles on the sending half of the channel: the queue's
\* job_sender, the clone each worker loop owns, the clone of each retry task
Senders ==
    (IF dropped THEN 0 ELSE 1) + Cardinality(LiveWorkers) + Cardinality(backoff)

\* memory: the receiver is gone with the last Arc around it: the queue's and
\* the clone each worker loop owns
ReceiverDropped == dropped /\ LiveWorkers = {}

\* nothing is in progress: no enqueue call, no job in the backend, every worker
\* waiting for a job
Quiet ==
    /\ InFlight = {}
    /\ \A w \in Workers : wpc[w] \in IdlePcs
    /\ chan = <<>> /\ list = <<>> /\ backoff = {}

(* -------------------------------- Init --------------------------------- *)
Init ==
    /\ backend \in {"memory", "redis"}
    /\ max_size \in (IF backend = "memory" THEN 0..MaxSizeBound ELSE {0})
    /\ workers \in 1..MaxWorkers
    /\ stats = NoStats
    /\ chan = <<>>
    /\ rxLock = 0
    /\ backoff = {}
    /\ list = <<>>
    /\ running = FALSE
    /\ faults = 0
    /\ started = FALSE
    /\ wpc = [w \in Workers |-> "unspawned"]
    /\ wjob = [w \in Workers |-> NoJob]
    /\ wraw = [w \in Workers |-> NoEntry]
    /\ wres = [w \in Workers |-> "None"]
    /\ enq = <<>>
    /\ foreign = 0
    /\ dropped = FALSE
    /\ obs = NoObs
    /\ now = 0
    /\ twin = NoTwin
    /\ ledger = <<>>

(* ------------------------------ enqueue -------------------------------- *)
\* the caller builds a job and calls enqueue: history of the new job
Submit(k) ==
    Append([i \in Ids |-> [ledger[i] EXCEPT !.solo = FALSE]],
           NewEntry(k, IF Quiet THEN stats ELSE NoStats, Quiet))

\* InMemoryJobQueue::enqueue, lines 86-90: the size check fails
MemEnqueueFull(callers, limit, ks) ==
    /\ backend = "memory" /\ Cardinality(InFlight) < callers /\ nextId <= limit
    /\ ~dropped
    /\ QueueFull(stats.pending, max_size)
    /\ \E k \in ks :
        ledger' = [Submit(k) EXCEPT ![nextId].result = "QueueFull"]
    /\ enq' = Append(enq, Returned)
    /\ UNCHANGED <<cfgVars, envVars, stats, memVars, redisVars, started, workerVars>>

\* InMemoryJobQueue::enqueue, lines 86-91: the size check passes
MemEnqueueCheck(callers, limit, ks, ds) ==
    /\ backend = "memory" /\ Cardinality(InFlight) < callers /\ nextId <= limit
    /\ ~dropped
    /\ ~QueueFull(stats.pending, max_size)
    /\ \E k \in ks, d \in ds :
        /\ enq' = Append(enq, [pc |-> "add", job |-> BuildJob(nextId, k, d)])
        /\ ledger' = [Submit(k) EXCEPT ![nextId].job = BuildJob(nextId, k, d)]
    /\ UNCHANGED <<cfgVars, envVars, stats, memVars, redisVars, started, workerVars>>

\* InMemoryJobQueue::enqueue, line 93
MemEnqueueAdd(c) ==
    /\ backend = "memory" /\ enq[c].pc = "add"
    /\ stats' = [stats EXCEPT !.pending = FetchAdd(@)]
    /\ enq' = [enq EXCEPT ![c].pc = "send"]
    /\ UNCHANGED <<cfgVars, envVars, memVars, redisVars, started, workerVars, ledger>>

\* InMemoryJobQueue::enqueue, lines 95-105: send waits for room in the channel;
\* it fails, and enqueue returns EnqueueError, if the receiver is gone
MemEnqueueSend(c) ==
    /\ backend = "memory" /\ enq[c].pc = "send"
    /\ ReceiverDropped \/ Len(chan) < ChannelCapacity(max_size)
    /\ IF ReceiverDropped
       THEN /\ ledger' = [ledger EXCEPT ![c].result = "EnqueueError"]
            /\ UNCHANGED chan
       ELSE /\ chan' = Push(chan, enq[c].job)
            /\ ledger' = [ledger EXCEPT ![c].result = "Ok", ![c].pushes = @ + 1]
    /\ enq' = [enq EXCEPT ![c] = Returned]
    /\ UNCHANGED <<cfgVars, envVars, stats, rxLock, backoff, redisVars, started, workerVars>>

\* RedisJobQueue::enqueue, lines 115-121: RPUSH succeeds
RedisEnqueuePush(callers, limit, ks, ds) ==
    /\ backend = "redis" /\ Cardinality(InFlight) < callers /\ nextId <= limit
    /\ \E k \in ks, d \in ds :
        /\ enq' = Append(enq, [pc |-> "add", job |-> BuildJob(nextId, k, d)])
        /\ list' = Push(list, ToJson(BuildJob(nextId, k, d)))
        /\ ledger' = [Submit(k) EXCEPT ![nextId].pushes = 1,
                                       ![nextId].job = BuildJob(nextId, k, d)]
    /\ UNCHANGED <<cfgVars, envVars, stats, memVars, running, faults, started, workerVars>>

\* mutant: pending is incremented before the RPUSH that fails
RedisEnqueuePushErrCounted(callers, limit, ks) ==
    /\ backend = "redis" /\ Cardinality(InFlight) < callers /\ nextId <= limit
    /\ faults < MaxFaults
    /\ faults' = faults + 1
    /\ stats' = [stats EXCEPT !.pending = FetchAdd(@)]
    /\ \E k \in ks :
        ledger' = [Submit(k) EXCEPT ![nextId].result = "Backend"]
    /\ enq' = Append(enq, Returned)
    /\ UNCHANGED <<cfgVars, envVars, memVars, list, running, started, workerVars>>

\* RedisJobQueue::enqueue, lines 119-121: RPUSH fails, Backend error returned
RedisEnqueuePushErr(callers, limit, ks) ==
    /\ backend = "redis" /\ Cardinality(InFlight) < callers /\ nextId <= limit
    /\ faults < MaxFaults
    /\ faults' = faults + 1
    /\ \E k \in ks :
        ledger' = [Submit(k) EXCEPT ![nextId].result = "Backend"]
    /\ enq' = Append(enq, Returned)
    /\ UNCHANGED <<cfgVars, envVars, stats, memVars, list, running, started, workerVars>>

\* RedisJobQueue::enqueue, lines 123-126
RedisEnqueueAdd(c) ==
    /\ backend = "redis" /\ enq[c].pc = "add"
    /\ stats' = [stats EXCEPT !.pending = FetchAdd(@)]
    /\ ledger' = [ledger EXCEPT ![c].result = "Ok"]
    /\ enq' = [enq EXCEPT ![c] = Returned]
    /\ UNCHANGED <<cfgVars, envVars, memVars, redisVars, started, workerVars>>

(* ---------------------------- start_worker ----------------------------- *)
\* start_worker of either backend: spawn config.workers loops
StartWorker ==
    /\ ~started /\ ~dropped
    /\ started' = TRUE
    /\ running' = (IF backend = "redis" THEN TRUE ELSE running)
    /\ wpc' = [w \in Workers |->
                 IF w <= workers
                 THEN (IF backend = "memory" THEN "lock" ELSE "check")
                 ELSE wpc[w]]
    /\ UNCHANGED <<cfgVars, envVars, stats, memVars, list, faults, wjob, wraw, wres,
                   enq, ledger>>

\* start_worker of either backend called on a queue whose workers have
\* been started: memory.rs 108-123 and redis.rs 129-145 test nothing before
\* the loop over 0..config.workers, so config.workers more loops are spawned
StartWorkerAgain ==
    /\ started /\ ~dropped
    /\ 2 * workers <= MaxWorkers
    /\ \A w \in (workers + 1)..(2 * workers) : wpc[w] = "unspawned"
    /\ running' = (IF backend = "redis" THEN TRUE ELSE running)
    /\ wpc' = [w \in Workers |->
                 IF w \in (workers + 1)..(2 * workers)
                 THEN (IF backend = "memory" THEN "lock" ELSE "check")
                 ELSE wpc[w]]
    /\ UNCHANGED <<cfgVars, envVars, stats, memVars, list, faults, started, wjob, wraw,
                   wres, enq, ledger>>

(* ----------------------- in-memory worker loop -------------------------- *)
\* lines 127-128: receiver.lock().await
MemLock(w) ==
    /\ backend = "memory" /\ wpc[w] = "lock"
    /\ rxLock = 0
    /\ rxLock' = w
    /\ wpc' = [wpc EXCEPT ![w] = "recv"]
    /\ UNCHANGED <<cfgVars, envVars, stats, chan, backoff, redisVars, started, wjob, wraw, wres,
                   enq, ledger>>

\* mutant: the guard on the receiver is kept while the job is processed
MemRecvKeepsLock(w) ==
    /\ backend = "memory" /\ wpc[w] = "recv" /\ rxLock = w
    /\ chan # <<>>
    /\ wjob' = [wjob EXCEPT ![w] = Head(chan)]
    /\ chan' = Dequeue(chan)
    /\ wpc' = [wpc EXCEPT ![w] = "dec_pending"]
    /\ UNCHANGED <<cfgVars, envVars, stats, rxLock, backoff, redisVars, started, wraw, wres,
                   enq, ledger>>

\* lines 129-133, 194-197: rx.recv().await yields a job, or None once the
\* channel is empty and no sender is left; the guard is dropped at the end of
\* the block
MemRecv(w) ==
    /\ backend = "memory" /\ wpc[w] = "recv" /\ rxLock = w
    /\ chan # <<>> \/ Senders = 0
    /\ IF chan # <<>>
       THEN /\ wjob' = [wjob EXCEPT ![w] = Head(chan)]
            /\ chan' = Dequeue(chan)
            /\ wpc' = [wpc EXCEPT ![w] = "dec_pending"]
       ELSE /\ wpc' = [wpc EXCEPT ![w] = "stopped"]
            /\ UNCHANGED <<wjob, chan>>
    /\ rxLock' = 0
    /\ UNCHANGED <<cfgVars, envVars, stats, backoff, redisVars, started, wraw, wres,
                   enq, ledger>>

\* line 134
MemDecPending(w) ==
    /\ backend = "memory" /\ wpc[w] = "dec_pending"
    /\ stats' = [stats EXCEPT !.pending = FetchSub(@)]
    /\ wpc' = [wpc EXCEPT ![w] = "inc_processing"]
    /\ UNCHANGED <<cfgVars, envVars, memVars, redisVars, started, wjob, wraw, wres,
                   enq, ledger>>

\* lines 135-145: processing += 1, job.attempts += 1, the handler is called
MemInvoke(w) ==
    /\ backend = "memory" /\ wpc[w] = "inc_processing"
    /\ stats' = [stats EXCEPT !.processing = FetchAdd(@)]
    /\ wjob' = [wjob EXCEPT ![w].attempts = @ + 1]
    /\ ledger' = [ledger EXCEPT ![wjob[w].id].calls = Append(@, wjob[w].attempts + 1)]
    /\ wpc' = [wpc EXCEPT ![w] = "handling"]
    /\ UNCHANGED <<cfgVars, envVars, memVars, redisVars, started, wraw, wres, enq>>

\* line 145: the handler panics; the panic unwinds the spawned task, which
\* drops the job and the task's handles
MemPanic(w) ==
    /\ backend = "memory" /\ wpc[w] = "handling"
    /\ ledger' = [ledger EXCEPT ![wjob[w].id].panics = @ + 1]
    /\ wpc' = [wpc EXCEPT ![w] = "panicked"]
    /\ wjob' = [wjob EXCEPT ![w] = NoJob]
    /\ UNCHANGED <<cfgVars, envVars, stats, memVars, redisVars, started, wraw, wres, enq>>

\* mutant: processing is not decremented when the handler returns
MemReturnKeepsProcessing(w) ==
    /\ backend = "memory" /\ wpc[w] = "handling"
    /\ \E r \in Outcomes :
        /\ wres' = [wres EXCEPT ![w] = r]
        /\ ledger' = [ledger EXCEPT ![wjob[w].id].rets = Append(@, r)]
    /\ wpc' = [wpc EXCEPT ![w] = "apply"]
    /\ UNCHANGED <<cfgVars, envVars, stats, memVars, redisVars, started, wjob, wraw, enq>>

\* lines 145-147: the handler returns a JobResult, processing -= 1
MemReturn(w) ==
    /\ backend = "memory" /\ wpc[w] = "handling"
    /\ \E r \in Outcomes :
        /\ wres' = [wres EXCEPT ![w] = r]
        /\ ledger' = [ledger EXCEPT ![wjob[w].id].rets = Append(@, r)]
    /\ stats' = [stats EXCEPT !.processing = FetchSub(@)]
    /\ wpc' = [wpc EXCEPT ![w] = "apply"]
    /\ UNCHANGED <<cfgVars, envVars, memVars, redisVars, started, wjob, wraw, enq>>

\* lines 150-153: JobResult::Success
MemComplete(w) ==
    /\ backend = "memory" /\ wpc[w] = "apply"
    /\ Disposition(wres[w], wjob[w]) = "complete"
    /\ stats' = [stats EXCEPT !.completed = FetchAdd(@)]
    /\ ledger' = [ledger EXCEPT ![wjob[w].id].completed = @ + 1]
    /\ wpc' = [wpc EXCEPT ![w] = "lock"]
    /\ wjob' = [wjob EXCEPT ![w] = NoJob]
    /\ wres' = [wres EXCEPT ![w] = "None"]
    /\ UNCHANGED <<cfgVars, envVars, memVars, redisVars, started, wraw, enq>>

\* mutant: the job that failed for good is not counted
MemFailUncounted(w) ==
    /\ backend = "memory" /\ wpc[w] = "apply"
    /\ Disposition(wres[w], wjob[w]) = "fail"
    /\ ledger' = [ledger EXCEPT ![wjob[w].id].failed = @ + 1]
    /\ wpc' = [wpc EXCEPT ![w] = "lock"]
    /\ wjob' = [wjob EXCEPT ![w] = NoJob]
    /\ wres' = [wres EXCEPT ![w] = "None"]
    /\ UNCHANGED <<cfgVars, envVars, stats, memVars, redisVars, started, wraw, enq>>

\* lines 179-191: JobResult::Failed, or JobResult::Retry with no attempt left
MemFail(w) ==
    /\ backend = "memory" /\ wpc[w] = "apply"
    /\ Disposition(wres[w], wjob[w]) = "fail"
    /\ stats' = [stats EXCEPT !.failed = FetchAdd(@)]
    /\ ledger' = [ledger EXCEPT ![wjob[w].id].failed = @ + 1]
    /\ wpc' = [wpc EXCEPT ![w] = "lock"]
    /\ wjob' = [wjob EXCEPT ![w] = NoJob]
    /\ wres' = [wres EXCEPT ![w] = "None"]
    /\ UNCHANGED <<cfgVars, envVars, memVars, redisVars, started, wraw, enq>>

\* lines 154-177: JobResult::Retry with attempts left: the job moves into a
\* spawned task that sleeps and then sends it
MemSpawnRetry(w) ==
    /\ backend = "memory" /\ wpc[w] = "apply"
    /\ Disposition(wres[w], wjob[w]) = "requeue"
    /\ backoff' = backoff \cup {wjob[w]}
    /\ wpc' = [wpc EXCEPT ![w] = "retry_add"]
    /\ wjob' = [wjob EXCEPT ![w] = NoJob]
    /\ wres' = [wres EXCEPT ![w] = "None"]
    /\ UNCHANGED <<cfgVars, envVars, stats, chan, rxLock, redisVars, started, wraw,
                   enq, ledger>>

\* line 178, after the spawn
MemRetryAdd(w) ==
    /\ backend = "memory" /\ wpc[w] = "retry_add"
    /\ stats' = [stats EXCEPT !.pending = FetchAdd(@)]
    /\ wpc' = [wpc EXCEPT ![w] = "lock"]
    /\ UNCHANGED <<cfgVars, envVars, memVars, redisVars, started, wjob, wraw, wres,
                   enq, ledger>>

\* line 167-169: the time the retry task sleeps before it sends
RetryDelayMs(job) == RetryBaseDelayMs * job.attempts

\* lines 166-177: the spawned task, its sleep over, sends the job
MemRetrySend(job) ==
    /\ backend = "memory" /\ job \in backoff
    /\ ~ReceiverDropped
    /\ Len(chan) < ChannelCapacity(max_size)
    /\ chan' = Push(chan, job)
    /\ backoff' = backoff \ {job}
    /\ ledger' = [ledger EXCEPT ![job.id].pushes = @ + 1,
                                ![job.id].slept = Append(@, RetryDelayMs(job))]
    /\ UNCHANGED <<cfgVars, envVars, stats, rxLock, redisVars, started, workerVars, enq>>

\* lines 171-176: the spawned task's send fails, the receiver being gone; the
\* error is logged
MemRetrySendErr(job) ==
    /\ backend = "memory" /\ job \in backoff
    /\ ReceiverDropped
    /\ backoff' = backoff \ {job}
    /\ ledger' = [ledger EXCEPT ![job.id].lost = @ + 1]
    /\ UNCHANGED <<cfgVars, envVars, stats, chan, rxLock, redisVars, started, workerVars, enq>>

\* the owner of the queue drops it: job_sender and the queue's handle on the
\* receiver go; no enqueue or start_worker call can follow
DropQueue ==
    /\ backend = "memory" /\ ~dropped
    /\ InFlight = {}
    /\ dropped' = TRUE
    /\ UNCHANGED <<cfgVars, foreign, obs, now, twin, stats, memVars, redisVars, started,
                   workerVars, enq, ledger>>

(* ------------------------- Redis worker loop --------------------------- *)
\* lines 155-158: the running flag is read
RedisCheckRunning(w) ==
    /\ backend = "redis" /\ wpc[w] = "check"
    /\ wpc' = [wpc EXCEPT ![w] = IF running THEN "blpop" ELSE "stopped"]
    /\ UNCHANGED <<cfgVars, envVars, stats, memVars, redisVars, started, wjob, wraw, wres,
                   enq, ledger>>

\* lines 161-165: BLPOP yields the head of the list
RedisPop(w) ==
    /\ backend = "redis" /\ wpc[w] = "blpop"
    /\ list # <<>>
    /\ wraw' = [wraw EXCEPT ![w] = Head(list)]
    /\ list' = Dequeue(list)
    /\ wpc' = [wpc EXCEPT ![w] = "parse"]
    /\ UNCHANGED <<cfgVars, envVars, stats, memVars, running, faults, started, wjob, wres,
                   enq, ledger>>

\* mutant: after a timeout the worker polls again without reading the flag
RedisPopTimeoutRepolls(w) ==
    /\ backend = "redis" /\ wpc[w] = "blpop"
    /\ list = <<>>
    /\ UNCHANGED vars

\* line 166: BLPOP times out on an empty list
RedisPopTimeout(w) ==
    /\ backend = "redis" /\ wpc[w] = "blpop"
    /\ list = <<>>
    /\ wpc' = [wpc EXCEPT ![w] = "check"]
    /\ UNCHANGED <<cfgVars, envVars, stats, memVars, redisVars, started, wjob, wraw, wres,
                   enq, ledger>>

\* mutant: a BLPOP error ends the loop
RedisPopErrBreaks(w) ==
    /\ backend = "redis" /\ wpc[w] = "blpop"
    /\ faults < MaxFaults
    /\ faults' = faults + 1
    /\ wpc' = [wpc EXCEPT ![w] = "stopped"]
    /\ UNCHANGED <<cfgVars, envVars, stats, memVars, list, running, started, wjob, wraw, wres,
                   enq, ledger>>

\* lines 167-171: BLPOP fails; the worker sleeps a second and loops
RedisPopErr(w) ==
    /\ backend = "redis" /\ wpc[w] = "blpop"
    /\ faults < MaxFaults
    /\ faults' = faults + 1
    /\ wpc' = [wpc EXCEPT ![w] = "check"]
    /\ UNCHANGED <<cfgVars, envVars, stats, memVars, list, running, started, wjob, wraw, wres,
                   enq, ledger>>

\* mutant: the entry that cannot be deserialized is pushed back
RedisParseFailRequeues(w) ==
    /\ backend = "redis" /\ wpc[w] = "parse"
    /\ ~ValidJson(wraw[w])
    /\ stats' = [stats EXCEPT !.failed = FetchAdd(@)]
    /\ list' = Push(list, wraw[w])
    /\ wraw' = [wraw EXCEPT ![w] = NoEntry]
    /\ wpc' = [wpc EXCEPT ![w] = "check"]
    /\ UNCHANGED <<cfgVars, envVars, memVars, running, faults, started, wjob, wres, enq, ledger>>

\* lines 174-181: the entry cannot be deserialized: failed += 1, continue
RedisParseFail(w) ==
    /\ backend = "redis" /\ wpc[w] = "parse"
    /\ ~ValidJson(wraw[w])
    /\ stats' = [stats EXCEPT !.failed = FetchAdd(@)]
    /\ wraw' = [wraw EXCEPT ![w] = NoEntry]
    /\ wpc' = [wpc EXCEPT ![w] = "check"]
    /\ UNCHANGED <<cfgVars, envVars, memVars, redisVars, started, wjob, wres, enq, ledger>>

\* lines 174-183: the entry is deserialized, pending -= 1
RedisDecPending(w) ==
    /\ backend = "redis" /\ wpc[w] = "parse"
    /\ ValidJson(wraw[w])
    /\ wjob' = [wjob EXCEPT ![w] = FromJson(wraw[w])]
    /\ wraw' = [wraw EXCEPT ![w] = NoEntry]
    /\ stats' = [stats EXCEPT !.pending = FetchSub(@)]
    /\ wpc' = [wpc EXCEPT ![w] = "inc_processing"]
    /\ UNCHANGED <<cfgVars, envVars, memVars, redisVars, started, wres, enq, ledger>>

\* lines 184-198: processing += 1, job.attempts += 1, the handler is called
RedisInvoke(w) ==
    /\ backend = "redis" /\ wpc[w] = "inc_processing"
    /\ stats' = [stats EXCEPT !.processing = FetchAdd(@)]
    /\ wjob' = [wjob EXCEPT ![w].attempts = @ + 1]
    /\ ledger' = [ledger EXCEPT ![wjob[w].id].calls = Append(@, wjob[w].attempts + 1)]
    /\ wpc' = [wpc EXCEPT ![w] = "handling"]
    /\ UNCHANGED <<cfgVars, envVars, memVars, redisVars, started, wraw, wres, enq>>

\* line 198: the handler panics; the panic unwinds the spawned task, which
\* drops the job
RedisPanic(w) ==
    /\ backend = "redis" /\ wpc[w] = "handling"
    /\ ledger' = [ledger EXCEPT ![wjob[w].id].panics = @ + 1]
    /\ wpc' = [wpc EXCEPT ![w] = "panicked"]
    /\ wjob' = [wjob EXCEPT ![w] = NoJob]
    /\ UNCHANGED <<cfgVars, envVars, stats, memVars, redisVars, started, wraw, wres, enq>>

\* mutant: the handler is raced against the flag and abandoned once it is cleared
RedisReturnInterruptible(w) ==
    /\ backend = "redis" /\ wpc[w] = "handling"
    /\ IF running
       THEN /\ \E r \in Outcomes :
                /\ wres' = [wres EXCEPT ![w] = r]
                /\ ledger' = [ledger EXCEPT ![wjob[w].id].rets = Append(@, r)]
            /\ stats' = [stats EXCEPT !.processing = FetchSub(@)]
            /\ wpc' = [wpc EXCEPT ![w] = "apply"]
            /\ UNCHANGED wjob
       ELSE /\ wpc' = [wpc EXCEPT ![w] = "stopped"]
            /\ wjob' = [wjob EXCEPT ![w] = NoJob]
            /\ UNCHANGED <<wres, ledger, stats>>
    /\ UNCHANGED <<cfgVars, envVars, memVars, redisVars, started, wraw, enq>>

\* lines 198-205, 232-233: the handler returns a JobResult, processing -= 1
RedisReturn(w) ==
    /\ backend = "redis" /\ wpc[w] = "handling"
    /\ \E r \in Outcomes :
        /\ wres' = [wres EXCEPT ![w] = r]
        /\ ledger' = [ledger EXCEPT ![wjob[w].id].rets = Append(@, r),
                                    ![wjob[w].id].late = IF running THEN @ ELSE @ + 1]
    /\ stats' = [stats EXCEPT !.processing = FetchSub(@)]
    /\ wpc' = [wpc EXCEPT ![w] = "apply"]
    /\ UNCHANGED <<cfgVars, envVars, memVars, redisVars, started, wjob, wraw, enq>>

\* mutant: a job that succeeded is counted in completed and in failed
RedisCompleteCountsBoth(w) ==
    /\ backend = "redis" /\ wpc[w] = "apply"
    /\ Disposition(wres[w], wjob[w]) = "complete"
    /\ stats' = [stats EXCEPT !.completed = FetchAdd(@), !.failed = FetchAdd(@)]
    /\ ledger' = [ledger EXCEPT ![wjob[w].id].completed = @ + 1,
                                ![wjob[w].id].failed = @ + 1]
    /\ wpc' = [wpc EXCEPT ![w] = "check"]
    /\ wjob' = [wjob EXCEPT ![w] = NoJob]
    /\ wres' = [wres EXCEPT ![w] = "None"]
    /\ UNCHANGED <<cfgVars, envVars, memVars, redisVars, started, wraw, enq>>

\* lines 199-203: JobResult::Success
RedisComplete(w) ==
    /\ backend = "redis" /\ wpc[w] = "apply"
    /\ Disposition(wres[w], wjob[w]) = "complete"
    /\ stats' = [stats EXCEPT !.completed = FetchAdd(@)]
    /\ ledger' = [ledger EXCEPT ![wjob[w].id].completed = @ + 1]
    /\ wpc' = [wpc EXCEPT ![w] = "check"]
    /\ wjob' = [wjob EXCEPT ![w] = NoJob]
    /\ wres' = [wres EXCEPT ![w] = "None"]
    /\ UNCHANGED <<cfgVars, envVars, memVars, redisVars, started, wraw, enq>>

\* lines 223-236: JobResult::Failed, or JobResult::Retry with no attempt left
RedisFail(w) ==
    /\ backend = "redis" /\ wpc[w] = "apply"
    /\ Disposition(wres[w], wjob[w]) = "fail"
    /\ stats' = [stats EXCEPT !.failed = FetchAdd(@)]
    /\ ledger' = [ledger EXCEPT ![wjob[w].id].failed = @ + 1]
    /\ wpc' = [wpc EXCEPT ![w] = "check"]
    /\ wjob' = [wjob EXCEPT ![w] = NoJob]
    /\ wres' = [wres EXCEPT ![w] = "None"]
    /\ UNCHANGED <<cfgVars, envVars, memVars, redisVars, started, wraw, enq>>

\* lines 206-210: JobResult::Retry with attempts left, RPUSH succeeds
RedisRetryPush(w) ==
    /\ backend = "redis" /\ wpc[w] = "apply"
    /\ Disposition(wres[w], wjob[w]) = "requeue"
    /\ list' = Push(list, ToJson(wjob[w]))
    /\ ledger' = [ledger EXCEPT ![wjob[w].id].pushes = @ + 1,
                                ![wjob[w].id].slept = Append(@, 0)]
    /\ wpc' = [wpc EXCEPT ![w] = "retry_add"]
    /\ wjob' = [wjob EXCEPT ![w] = NoJob]
    /\ wres' = [wres EXCEPT ![w] = "None"]
    /\ UNCHANGED <<cfgVars, envVars, stats, memVars, running, faults, started, wraw, enq>>

\* lines 209-213: JobResult::Retry with attempts left, RPUSH fails
RedisRetryPushErr(w) ==
    /\ backend = "redis" /\ wpc[w] = "apply"
    /\ Disposition(wres[w], wjob[w]) = "requeue"
    /\ faults < MaxFaults
    /\ faults' = faults + 1
    /\ stats' = [stats EXCEPT !.failed = FetchAdd(@)]
    /\ ledger' = [ledger EXCEPT ![wjob[w].id].failed = @ + 1,
                                ![wjob[w].id].lost = @ + 1]
    /\ wpc' = [wpc EXCEPT ![w] = "check"]
    /\ wjob' = [wjob EXCEPT ![w] = NoJob]
    /\ wres' = [wres EXCEPT ![w] = "None"]
    /\ UNCHANGED <<cfgVars, envVars, memVars, list, running, started, wraw, enq>>

\* line 215
RedisRetryAdd(w) ==
    /\ backend = "redis" /\ wpc[w] = "retry_add"
    /\ stats' = [stats EXCEPT !.pending = FetchAdd(@)]
    /\ wpc' = [wpc EXCEPT ![w] = "check"]
    /\ UNCHANGED <<cfgVars, envVars, memVars, redisVars, started, wjob, wraw, wres,
                   enq, ledger>>

\* the running flag is cleared (the one place that does it is line 310)
Shutdown ==
    /\ backend = "redis" /\ started /\ running
    /\ running' = FALSE
    /\ UNCHANGED <<cfgVars, envVars, stats, memVars, list, faults, started, workerVars,
                   enq, ledger>>

\* another client of the Redis server pushes an entry that is not a job
ForeignPush ==
    /\ backend = "redis" /\ foreign < MaxForeign
    /\ foreign' = foreign + 1
    /\ list' = Push(list, Malformed)
    /\ ledger' = [i \in Ids |-> [ledger[i] EXCEPT !.solo = FALSE]]
    /\ UNCHANGED <<cfgVars, dropped, obs, now, twin, stats, memVars, running, faults, started,
                   workerVars, enq>>

(* -------------------------------- stats -------------------------------- *)
\* everything but the stats() call
queueVars == <<cfgVars, foreign, dropped, now, twin, stats, memVars, redisVars, started, workerVars,
               enq, ledger>>

\* mutant: the first load is a swap that resets the counter
StatsLoadPendingSwaps ==
    /\ obs.pc = "idle" /\ obs.calls < MaxStatsCalls
    /\ obs' = [pc |-> "processing", calls |-> obs.calls + 1,
               value |-> [NoStats EXCEPT !.pending = stats.pending]]
    /\ stats' = [stats EXCEPT !.pending = 0]
    /\ UNCHANGED <<cfgVars, foreign, dropped, now, twin, memVars, redisVars, started,
                   workerVars, enq, ledger>>

\* stats of either backend, memory.rs line 208, redis.rs line 247: the call
\* begins with pending.load(Relaxed)
StatsLoadPending ==
    /\ obs.pc = "idle" /\ obs.calls < MaxStatsCalls
    /\ obs' = [pc |-> "processing", calls |-> obs.calls + 1,
               value |-> [NoStats EXCEPT !.pending = stats.pending]]
    /\ UNCHANGED queueVars

\* memory.rs line 209, redis.rs line 248: processing.load(Relaxed)
StatsLoadProcessing ==
    /\ obs.pc = "processing"
    /\ obs' = [obs EXCEPT !.pc = "completed", !.value.processing = stats.processing]
    /\ UNCHANGED queueVars

\* memory.rs line 210, redis.rs line 249: completed.load(Relaxed)
StatsLoadCompleted ==
    /\ obs.pc = "completed"
    /\ obs' = [obs EXCEPT !.pc = "failed", !.value.completed = stats.completed]
    /\ UNCHANGED queueVars

\* memory.rs lines 207-212, redis.rs lines 246-251: failed.load(Relaxed), and
\* the call returns Ok(QueueStats {..})
StatsLoadFailed ==
    /\ obs.pc = "failed"
    /\ obs' = [obs EXCEPT !.pc = "idle", !.value.failed = stats.failed]
    /\ UNCHANGED queueVars

Stats ==
    \/ StatsLoadPending
    \/ StatsLoadProcessing
    \/ StatsLoadCompleted
    \/ StatsLoadFailed

(* -------------------------------- clock -------------------------------- *)
\* time passes
Tick ==
    /\ now < MaxClock
    /\ now' = now + 1
    /\ UNCHANGED <<cfgVars, foreign, dropped, obs, twin, stats, memVars, redisVars,
                   started, workerVars, enq, ledger>>

(* ---------------------------- specification ---------------------------- *)
Enqueue ==
    \/ MemEnqueueFull(NProducers, MaxJobs, MaxAttemptsChoices)
    \/ MemEnqueueCheck(NProducers, MaxJobs, MaxAttemptsChoices, NoDelay)
    \/ RedisEnqueuePush(NProducers, MaxJobs, MaxAttemptsChoices, NoDelay)
    \/ RedisEnqueuePushErr(NProducers, MaxJobs, MaxAttemptsChoices)
    \/ \E c \in InFlight :
        \/ MemEnqueueAdd(c)
        \/ MemEnqueueSend(c)
        \/ RedisEnqueueAdd(c)

MemWorker ==
    \E w \in Workers :
        \/ MemLock(w)
        \/ MemRecv(w)
        \/ MemDecPending(w)
        \/ MemInvoke(w)
        \/ MemReturn(w)
        \/ MemComplete(w)
        \/ MemFail(w)
        \/ MemSpawnRetry(w)
        \/ MemRetryAdd(w)

MemRetryTask == \E job \in backoff : MemRetrySend(job)

RedisWorker ==
    \E w \in Workers :
        \/ RedisCheckRunning(w)
        \/ RedisPop(w)
        \/ RedisPopTimeout(w)
        \/ RedisPopErr(w)
        \/ RedisDecPending(w)
        \/ RedisInvoke(w)
        \/ RedisReturn(w)
        \/ RedisComplete(w)
        \/ RedisFail(w)
        \/ RedisRetryPush(w)
        \/ RedisRetryPushErr(w)
        \/ RedisRetryAdd(w)

Next ==
    \/ Enqueue
    \/ StartWorker
    \/ MemWorker
    \/ MemRetryTask
    \/ RedisWorker

Spec == Init /\ [][Next]_vars

\* Every spawned task and every call in progress keeps being scheduled, the
\* application does call start_worker, and handlers return.
Fairness ==
    /\ WF_vars(StartWorker)
    /\ \A c \in 1..MaxJobs :
        WF_vars(c \in InFlight /\ (MemEnqueueAdd(c) \/ MemEnqueueSend(c) \/ RedisEnqueueAdd(c)))
    /\ \A w \in Workers :
        /\ WF_vars(MemLock(w) \/ MemRecv(w) \/ MemDecPending(w) \/ MemInvoke(w)
                    \/ MemReturn(w) \/ MemComplete(w) \/ MemFail(w)
                    \/ MemSpawnRetry(w) \/ MemRetryAdd(w))
        /\ WF_vars(RedisCheckRunning(w) \/ RedisPop(w) \/ RedisPopTimeout(w)
                    \/ RedisPopErr(w) \/ RedisDecPending(w) \/ RedisInvoke(w)
                    \/ RedisReturn(w) \/ RedisComplete(w) \/ RedisFail(w)
                    \/ RedisRetryPush(w) \/ RedisRetryPushErr(w) \/ RedisRetryAdd(w))
    /\ WF_vars(MemRetryTask)

FairSpec == Spec /\ Fairness

\* As Fairness, but a handler invocation need not return.
FairnessHandlersMayHang ==
    /\ WF_vars(StartWorker)
    /\ \A c \in 1..MaxJobs :
        WF_vars(c \in InFlight /\ (MemEnqueueAdd(c) \/ MemEnqueueSend(c) \/ RedisEnqueueAdd(c)))
    /\ \A w \in Workers :
        /\ WF_vars(MemLock(w) \/ MemRecv(w) \/ MemDecPending(w) \/ MemInvoke(w)
                    \/ MemComplete(w) \/ MemFail(w)
                    \/ MemSpawnRetry(w) \/ MemRetryAdd(w))
        /\ WF_vars(RedisCheckRunning(w) \/ RedisPop(w) \/ RedisPopTimeout(w)
                    \/ RedisPopErr(w) \/ RedisDecPending(w) \/ RedisInvoke(w)
                    \/ RedisComplete(w) \/ RedisFail(w)
                    \/ RedisRetryPush(w) \/ RedisRetryPushErr(w) \/ RedisRetryAdd(w))
    /\ WF_vars(MemRetryTask)

FairSpecHang == Spec /\ FairnessHandlersMayHang

(* --------------------- panics and a dropped queue ----------------------- *)
NextCrash ==
    \/ Next
    \/ \E w \in Workers : MemPanic(w) \/ RedisPanic(w)
    \/ DropQueue
    \/ \E job \in backoff : MemRetrySendErr(job)

SpecCrash == Init /\ [][NextCrash]_vars

(* ----------------------- start_worker called twice --------------------- *)
NextRestart ==
    \/ Next
    \/ StartWorkerAgain

SpecRestart == Init /\ [][NextRestart]_vars

(* ------------------------- reading the counters ------------------------ *)
\* One caller enqueues jobs built with with_max_attempts(MaxAttemptsBound),
\* the workers run, and stats() is called at any moment.
NextStats ==
    \/ MemEnqueueFull(1, MaxJobs, {MaxAttemptsBound})
    \/ MemEnqueueCheck(1, MaxJobs, {MaxAttemptsBound}, NoDelay)
    \/ RedisEnqueuePush(1, MaxJobs, {MaxAttemptsBound}, NoDelay)
    \/ RedisEnqueuePushErr(1, MaxJobs, {MaxAttemptsBound})
    \/ \E c \in InFlight :
        \/ MemEnqueueAdd(c)
        \/ MemEnqueueSend(c)
        \/ RedisEnqueueAdd(c)
    \/ StartWorker
    \/ MemWorker
    \/ MemRetryTask
    \/ RedisWorker
    \/ Stats

SpecStats == Init /\ [][NextStats]_vars

(* ---------------------------- delayed jobs ----------------------------- *)
\* One caller enqueues jobs built with with_max_attempts(MaxAttemptsBound),
\* with or without Job::delayed, while time passes.
NextDelayed ==
    \/ MemEnqueueFull(1, MaxJobs, {MaxAttemptsBound})
    \/ MemEnqueueCheck(1, MaxJobs, {MaxAttemptsBound}, DelayChoices)
    \/ RedisEnqueuePush(1, MaxJobs, {MaxAttemptsBound}, DelayChoices)
    \/ RedisEnqueuePushErr(1, MaxJobs, {MaxAttemptsBound})
    \/ \E c \in InFlight :
        \/ MemEnqueueAdd(c)
        \/ MemEnqueueSend(c)
        \/ RedisEnqueueAdd(c)
    \/ StartWorker
    \/ MemWorker
    \/ MemRetryTask
    \/ RedisWorker
    \/ Tick

SpecDelayed == Init /\ [][NextDelayed]_vars

(* ------------------------- the two backends --------------------------- *)
\* The same calls on an InMemoryJobQueue and then on a RedisJobQueue: one
\* caller enqueues jobs built with with_max_attempts(MaxAttemptsBound), a
\* handler whose result depends on the job's id and attempts only, no Redis
\* command fails.
InitPair == Init /\ backend = "memory"

\* the in-memory queue has finished: what it did is kept, and a Redis queue
\* with the same number of workers is constructed
Switch ==
    /\ backend = "memory" /\ ~twin.set
    /\ started /\ Quiet /\ Len(enq) >= 1
    /\ twin' = [set |-> TRUE, max_size |-> max_size,
                results |-> [j \in Ids |-> ledger[j].result],
                calls |-> [j \in Ids |-> ledger[j].calls],
                rets |-> [j \in Ids |-> ledger[j].rets],
                completed |-> stats.completed, failed |-> stats.failed]
    /\ backend' = "redis" /\ max_size' = 0
    /\ stats' = NoStats
    /\ chan' = <<>> /\ rxLock' = 0 /\ backoff' = {}
    /\ started' = FALSE
    /\ wpc' = [w \in Workers |-> "unspawned"]
    /\ wjob' = [w \in Workers |-> NoJob]
    /\ wraw' = [w \in Workers |-> NoEntry]
    /\ wres' = [w \in Workers |-> "None"]
    /\ enq' = <<>>
    /\ ledger' = <<>>
    /\ UNCHANGED <<workers, redisVars, foreign, dropped, obs, now>>

\* the handler is the one the in-memory queue called: for a job and an
\* attempts value it has seen, it returns what it returned then
Replay ==
    \A j \in Ids : \A i \in 1..Len(ledger[j].rets) :
        (twin.set /\ j <= Len(twin.rets) /\ i <= Len(twin.rets[j])) =>
            ledger[j].rets[i] = twin.rets[j][i]

NextPair ==
    \/ MemEnqueueFull(1, MaxJobs, {MaxAttemptsBound})
    \/ MemEnqueueCheck(1, MaxJobs, {MaxAttemptsBound}, NoDelay)
    \/ \E c \in InFlight :
        \/ MemEnqueueAdd(c)
        \/ MemEnqueueSend(c)
        \/ RedisEnqueueAdd(c)
    \/ StartWorker
    \/ MemWorker
    \/ MemRetryTask
    \/ Switch
    \/ RedisEnqueuePush(1, Len(twin.results), {MaxAttemptsBound}, NoDelay)
    \/ \E w \in Workers :
        \/ RedisCheckRunning(w)
        \/ RedisPop(w)
        \/ RedisPopTimeout(w)
        \/ RedisDecPending(w)
        \/ RedisInvoke(w)
        \/ RedisReturn(w) /\ Replay'
        \/ RedisComplete(w)
        \/ RedisFail(w)
        \/ RedisRetryPush(w)
        \/ RedisRetryAdd(w)

SpecPair == InitPair /\ [][NextPair]_vars

(* ------------------------------ shutdown -------------------------------- *)
\* The Redis backend with a shutdown: callers enqueue jobs
\* built with with_max_attempts(MaxAttemptsBound).
InitShutdown == Init /\ backend = "redis"

NextShutdown ==
    \/ RedisEnqueuePush(NProducers, MaxJobs, {MaxAttemptsBound}, NoDelay)
    \/ RedisEnqueuePushErr(NProducers, MaxJobs, {MaxAttemptsBound})
    \/ \E c \in InFlight : RedisEnqueueAdd(c)
    \/ StartWorker
    \/ RedisWorker
    \/ Shutdown

SpecShutdown == InitShutdown /\ [][NextShutdown]_vars

FairSpecShutdown == SpecShutdown /\ Fairness

(* ------------------------- foreign list entries ------------------------- *)
NextForeign ==
    \/ Next
    \/ ForeignPush
    \/ \E w \in Workers : RedisParseFail(w)

SpecForeign == Init /\ [][NextForeign]_vars

(* ----------------------- sequential burst ------------------------------- *)
\* One caller enqueues default jobs one after the other on the in-memory
\* backend; start_worker has not been called.
InitBurst == Init /\ backend = "memory"

NextBurst ==
    \/ MemEnqueueFull(1, BurstJobs, {DefaultMaxAttempts})
    \/ MemEnqueueCheck(1, BurstJobs, {DefaultMaxAttempts}, NoDelay)
    \/ \E c \in InFlight :
        \/ MemEnqueueAdd(c)
        \/ MemEnqueueSend(c)

SpecBurst == InitBurst /\ [][NextBurst]_vars

(* ------------------------------ claims --------------------------------- *)
\* every job value that exists: in a worker, in the channel, in a retry task,
\* in the list, or in an enqueue call
JobsHeld ==
    {wjob[w] : w \in Workers}
        \cup {chan[i] : i \in 1..Len(chan)}
        \cup backoff
        \cup {FromJson(list[i]) : i \in {n \in 1..Len(list) : ValidJson(list[n])}}
        \cup {FromJson(wraw[w]) : w \in {v \in Workers : ValidJson(wraw[v])}}
        \cup {enq[c].job : c \in InFlight}

Terminal(j) == ledger[j].completed + ledger[j].failed >= 1

AllRetry(j) == \A i \in 1..Len(ledger[j].rets) : ledger[j].rets[i] = "Retry"

\* C1: the handler is invoked at most max_attempts times for every job.
C1_InvocationsWithinMaxAttempts ==
    \A j \in Ids : Len(ledger[j].calls) <= ledger[j].max_attempts

\* C2: a job whose handler returned Retry every time and that has reached its
\* terminal state, no Redis command having failed, was handed to the handler
\* exactly max_attempts times, carries attempts = max_attempts, and is counted
\* once in failed and not in completed.
C2_AlwaysRetryExhaustsExactly ==
    \A j \in Ids :
        (Terminal(j) /\ AllRetry(j) /\ faults = 0) =>
            /\ Len(ledger[j].calls) = ledger[j].max_attempts
            /\ ledger[j].calls = [i \in 1..ledger[j].max_attempts |-> i]
            /\ ledger[j].failed = 1 /\ ledger[j].completed = 0

\* C3: once a job enqueued with nothing else in progress has been completed by
\* a first invocation that returned Success and enqueue has returned Ok,
\* completed is one above its value at the call, and failed, pending and
\* processing are at their values at the call.
C3_SuccessAccounting ==
    \A j \in Ids :
        (/\ ledger[j].solo
         /\ ledger[j].result = "Ok"
         /\ ledger[j].rets = <<"Success">>
         /\ ledger[j].completed = 1) =>
            /\ stats.completed = ledger[j].base.completed + 1
            /\ stats.failed = ledger[j].base.failed
            /\ stats.pending = ledger[j].base.pending
            /\ stats.processing = ledger[j].base.processing

C3_Witness ==
    \E j \in Ids :
        /\ ledger[j].solo
        /\ ledger[j].result = "Ok"
        /\ ledger[j].rets = <<"Success">>
        /\ ledger[j].completed = 1
        /\ ledger[j].base.completed + ledger[j].base.failed >= 1

\* C4: in-memory backend, max_size > 0: an enqueue call that begins while
\* pending = max_size returns QueueFull at once and changes neither the
\* channel nor any counter.
C4_FullEnqueueRejected ==
    [][(/\ backend = "memory" /\ max_size > 0
        /\ stats.pending = max_size
        /\ Len(enq') = Len(enq) + 1) =>
            /\ ledger'[Len(enq')].result = "QueueFull"
            /\ enq'[Len(enq')] = Returned
            /\ chan' = chan /\ backoff' = backoff
            /\ stats' = stats]_vars

C4_Witness ==
    \E j \in Ids :
        /\ backend = "memory" /\ max_size > 0
        /\ ledger[j].result = "QueueFull"
        /\ stats.pending = max_size

\* C5: in-memory backend, max_size > 0: neither pending nor the number of
\* jobs in the channel or in retry backoff ever exceeds max_size.
C5_CapacityBound ==
    (backend = "memory" /\ max_size > 0) =>
        /\ stats.pending >= 0 /\ stats.pending <= max_size
        /\ Len(chan) + Cardinality(backoff) <= max_size

\* C6: an in-memory enqueue never has to wait: whenever a call is at its
\* send, the channel has room.
C6_EnqueueNeverWaits ==
    \A c \in InFlight :
        (backend = "memory" /\ enq[c].pc = "send") =>
            Len(chan) < ChannelCapacity(max_size)

\* C7: no two workers hold the same job at the same time, and a job is
\* handed to the handler at most once for each time it was put into the
\* backend.
C7_SingleDelivery ==
    /\ \A v, w \in Workers :
        (v # w /\ wjob[v] # NoJob) => wjob[v].id # wjob[w].id
    /\ \A j \in Ids : Len(ledger[j].calls) <= ledger[j].pushes

C7_Witness ==
    /\ \A w \in Workers : wpc[w] = "handling"
    /\ \E j \in Ids : ledger[j].pushes >= 2 /\ Len(ledger[j].calls) = 2

\* C10: once a handler invocation for a job has completed, every value of
\* the job has attempts <= max_attempts, up to and including its last one.
C10_AttemptsWithinMax ==
    /\ \A job \in JobsHeld :
        (job # NoJob /\ ledger[job.id].rets # <<>>) =>
            job.attempts <= job.max_attempts
    /\ \A j \in Ids :
        ledger[j].rets # <<>> =>
            ledger[j].calls[Len(ledger[j].rets)] <= ledger[j].max_attempts

\* the jobs whose enqueue returned Ok
Accepted == {j \in Ids : ledger[j].result = "Ok"}

AlwaysSuccess ==
    \A j \in Ids : \A i \in 1..Len(ledger[j].rets) : ledger[j].rets[i] = "Success"

\* C8: every job whose enqueue returned Ok is eventually handed to the
\* handler and eventually counted in completed or failed.
C8_AcceptedJobsFinish ==
    \A j \in 1..MaxJobs :
        (j \in Accepted) ~> (j \in Ids /\ ledger[j].calls # <<>> /\ Terminal(j))

C8_Witness ==
    \E j \in Accepted :
        /\ Len(ledger[j].calls) >= 2
        /\ ledger[j].failed = 1

\* C9: with workers started and a handler that only ever returns Success,
\* the counters settle for good at completed = number of jobs accepted,
\* failed = 0, pending = 0, processing = 0.
C9_AllSuccessConverges ==
    <>[](AlwaysSuccess =>
            /\ started
            /\ stats.completed = Cardinality(Accepted)
            /\ stats.failed = 0
            /\ stats.pending = 0
            /\ stats.processing = 0)

C9_Witness ==
    /\ AlwaysSuccess
    /\ Cardinality(Accepted) = MaxJobs
    /\ stats.completed = MaxJobs
    /\ stats.pending = 0 /\ stats.processing = 0 /\ stats.failed = 0

\* the ids of the jobs waiting in the backend: in the channel, in a retry
\* task, in the list, or popped and not yet deserialized
Queued ==
    {chan[i].id : i \in 1..Len(chan)}
        \cup {job.id : job \in backoff}
        \cup {FromJson(list[i]).id : i \in {n \in 1..Len(list) : ValidJson(list[n])}}
        \cup {FromJson(wraw[w]).id : w \in {v \in Workers : ValidJson(wraw[v])}}

\* the last outcome the handler returned for job j is Success or Failed
FinalOutcome(j) ==
    /\ ledger[j].rets # <<>>
    /\ ledger[j].rets[Len(ledger[j].rets)] \in {"Success", "Failed"}

\* C11: once the handler has returned Success or Failed for a job, whatever
\* attempts are left, the job is never handed to the handler and never put
\* into the backend again, and the worker's next step for it adds exactly 1
\* to completed (Success) or exactly 1 to failed (Failed) and nothing else.
C11_SuccessFailedTerminal ==
    [][/\ \A j \in Ids :
            FinalOutcome(j) =>
                /\ ledger'[j].calls = ledger[j].calls
                /\ ledger'[j].rets = ledger[j].rets
                /\ ledger'[j].pushes = ledger[j].pushes
                /\ ledger'[j].completed + ledger'[j].failed <= 1
                /\ j \notin Queued'
       /\ \A w \in Workers :
            (wpc[w] = "apply" /\ wres[w] \in {"Success", "Failed"} /\ wpc'[w] # "apply") =>
                /\ stats' = (IF wres[w] = "Success"
                             THEN [stats EXCEPT !.completed = @ + 1]
                             ELSE [stats EXCEPT !.failed = @ + 1])
                /\ ledger'[wjob[w].id].completed = (IF wres[w] = "Success" THEN 1 ELSE 0)
                /\ ledger'[wjob[w].id].failed = (IF wres[w] = "Failed" THEN 1 ELSE 0)
                /\ chan' = chan /\ list' = list /\ backoff' = backoff]_vars

C11_Witness ==
    \E j \in Ids :
        /\ ledger[j].rets = <<"Failed">>
        /\ ledger[j].max_attempts > 1
        /\ ledger[j].failed = 1 /\ ledger[j].completed = 0
        /\ \A w \in Workers : wjob[w].id # j

\* C12: a handler invocation that panics is treated like one that returned
\* Failed: the job is counted once in failed, processing counts only the
\* invocations still running, and every spawned worker loop is still alive.
C12_PanicCountedAsFailed ==
    /\ \A j \in Ids :
        (ledger[j].panics >= 1 /\ \A w \in Workers : wjob[w].id # j) =>
            ledger[j].failed = 1
    /\ stats.processing = Cardinality({w \in Workers : wpc[w] = "handling"})
    /\ started => Cardinality(LiveWorkers) = workers

\* the flag is cleared, the list is empty and every worker loop is between
\* jobs
ShutdownIdle ==
    /\ backend = "redis" /\ started /\ ~running
    /\ list = <<>>
    /\ \A w \in Workers : wpc[w] \in {"unspawned", "check", "blpop", "stopped"}

AllStopped == \A w \in Workers : wpc[w] \in {"unspawned", "stopped"}

\* C13: Redis backend: once the running flag is cleared while the list is
\* empty and every worker is idle, every worker loop exits: a worker that
\* reads the flag stops, a worker inside BLPOP on the empty list comes back
\* from that one BLPOP to read the flag, and all loops have exited in the end.
C13_IdleShutdownStopsWorkers ==
    /\ ShutdownIdle ~> AllStopped
    /\ [][\A w \in Workers :
            (backend = "redis" /\ started /\ ~running) =>
                /\ wpc[w] = "check" => wpc'[w] \in {"check", "stopped"}
                /\ (wpc[w] = "blpop" /\ list = <<>>) => wpc'[w] \in {"blpop", "check"}]_vars

C13_Witness ==
    /\ backend = "redis" /\ started /\ ~running
    /\ workers = MaxWorkers
    /\ \A w \in Workers : wpc[w] = "stopped"
    /\ \A j \in Ids : ledger[j].calls = <<>>

\* C14: Redis backend: clearing the running flag while a handler invocation
\* is in progress does not interrupt it: the invocation returns, its outcome
\* is applied to the counters, a Retry with attempts left is pushed back, and
\* the loop exits only at its read of the flag and starts nothing afterwards.
C14_ShutdownLetsInvocationFinish ==
    [][\A w \in Workers :
        (backend = "redis" /\ started /\ ~running) =>
            /\ (wpc[w] = "handling" /\ wpc'[w] # "handling") =>
                    /\ wpc'[w] = "apply" /\ wjob'[w] = wjob[w]
                    /\ Len(ledger'[wjob[w].id].rets) = Len(ledger[wjob[w].id].rets) + 1
                    /\ stats' = [stats EXCEPT !.processing = @ - 1]
            /\ (wpc[w] = "apply" /\ wpc'[w] # "apply") =>
                    LET d == Disposition(wres[w], wjob[w]) IN
                    /\ d = "complete" => stats' = [stats EXCEPT !.completed = @ + 1]
                    /\ d = "fail" => stats' = [stats EXCEPT !.failed = @ + 1]
                    /\ d = "requeue" =>
                            \/ list' = Append(list, ToJson(wjob[w])) /\ wpc'[w] = "retry_add"
                            \/ faults' = faults + 1 /\ stats' = [stats EXCEPT !.failed = @ + 1]
            /\ (wpc[w] = "retry_add" /\ wpc'[w] # "retry_add") =>
                    stats' = [stats EXCEPT !.pending = @ + 1]
            /\ wpc'[w] = "stopped" => wpc[w] \in {"check", "stopped"}
            /\ wpc[w] = "stopped" => wpc'[w] = "stopped"]_vars

C14_Witness ==
    \E j \in Ids :
        /\ backend = "redis" /\ ~running
        /\ ledger[j].late = 1 /\ ledger[j].rets = <<"Retry">>
        /\ ledger[j].pushes = 2
        /\ \E i \in 1..Len(list) : list[i] = ToJson([NewJob(j, ledger[j].max_attempts) EXCEPT !.attempts = 1])
        /\ \A w \in Workers : wpc[w] \in {"unspawned", "stopped"}

\* C15: in-memory backend: once the queue has been dropped, no call or retry
\* task holds a job and the channel is empty, the receive of the worker that
\* waits on the channel returns (None, the channel being closed), so that
\* the loop can exit.
C15_DroppedQueueClosesChannel ==
    \A w \in Workers :
        (/\ backend = "memory" /\ dropped
         /\ InFlight = {} /\ backoff = {} /\ chan = <<>>
         /\ wpc[w] = "recv" /\ rxLock = w) => ENABLED MemRecv(w)

\* C16: in both backends a job whose handler returned Retry with attempts
\* left is put back into the backend no earlier than RetryBaseDelayMs times
\* its attempts after that outcome: at least that long was slept in between.
C16_RetryBackoffDelay ==
    \A j \in Ids :
        \A n \in 1..Len(ledger[j].slept) :
            ledger[j].slept[n] >= RetryBaseDelayMs * ledger[j].calls[n]

\* no call is in progress, no job is in the backend, no worker holds a job
Settled ==
    /\ InFlight = {}
    /\ chan = <<>> /\ list = <<>> /\ backoff = {}
    /\ \A w \in Workers : wpc[w] \in IdlePcs \cup {"panicked", "stopped"}

\* C17: in both backends a job whose re-submission after Retry failed is
\* counted in failed exactly once, and it is not left counted in pending:
\* once nothing is queued or in progress any more, pending is 0.
C17_FailedResubmitCounted ==
    \A j \in Ids :
        ledger[j].lost >= 1 =>
            /\ ledger[j].failed = 1
            /\ Settled => stats.pending = 0

EnqueueErrors == {"QueueFull", "EnqueueError", "Backend"}

\* C18: a step in which an enqueue call returns QueueFull, EnqueueError or
\* Backend puts no job into the channel, the list or a retry task and changes
\* no counter, and if nothing else was in progress during the call, the
\* counters are at their values when the call began.
C18_FailedEnqueueChangesNothing ==
    [][\A j \in 1..Len(ledger') :
        (/\ ledger'[j].result \in EnqueueErrors
         /\ j \in Ids => ledger[j].result = "InFlight") =>
            /\ enq'[j] = Returned
            /\ chan' = chan /\ list' = list /\ backoff' = backoff
            /\ stats' = stats
            /\ ledger'[j].pushes = 0
            /\ ledger'[j].solo => stats' = ledger'[j].base]_vars

C18_Witness ==
    /\ \E j \in Ids : ledger[j].result = "Backend" /\ ledger[j].solo
    /\ \E j \in Ids : ledger[j].result = "Ok"
    /\ stats.completed + stats.failed >= 1

\* C19: Redis backend: the step a worker takes with a popped entry that is
\* not a Job adds exactly 1 to failed and changes no other counter, invokes
\* no handler, pushes nothing to the list, and leaves the worker at the top
\* of its loop.
C19_MalformedEntryCountedFailed ==
    [][\A w \in Workers :
        (/\ backend = "redis" /\ wpc[w] = "parse" /\ ~ValidJson(wraw[w])
         /\ wpc'[w] # "parse") =>
            /\ stats' = [stats EXCEPT !.failed = @ + 1]
            /\ ledger' = ledger
            /\ list' = list
            /\ wjob'[w] = NoJob /\ wraw'[w] = NoEntry
            /\ wpc'[w] = "check"]_vars

\* a worker that met a malformed entry is handling the job that came after it
C19_Witness ==
    /\ backend = "redis" /\ workers = 1
    /\ foreign = 1 /\ faults = 0
    /\ stats.failed = 1 /\ stats.completed = 0
    /\ \A j \in Ids : ledger[j].failed = 0
    /\ \E w \in Workers : wpc[w] = "handling"

\* C20: Redis backend: the step of a worker whose BLPOP returns an error
\* changes no counter, nothing in the list and no job, and leaves the worker
\* at the top of its loop, where it reads the flag and polls again; no worker
\* loop ever ends while the flag is set.
C20_PopErrorKeepsWorker ==
    [][\A w \in Workers :
        /\ (/\ backend = "redis" /\ wpc[w] = "blpop"
            /\ wpc'[w] # "blpop" /\ faults' # faults) =>
                /\ wpc'[w] = "check"
                /\ stats' = stats /\ list' = list /\ ledger' = ledger
                /\ wjob' = wjob /\ wraw' = wraw
        /\ (backend = "redis" /\ running') => wpc'[w] # "stopped"]_vars

\* the only worker, after its BLPOP failed as often as the bound allows,
\* handles the first job
C20_Witness ==
    /\ backend = "redis" /\ workers = 1
    /\ faults = MaxFaults
    /\ \A j \in Ids : ledger[j].result = "Ok" /\ ledger[j].rets = <<>>
    /\ \E w \in Workers : wpc[w] = "handling"

\* C30: neither pending nor processing is ever decremented while it is 0:
\* no counter wraps, so the value stats() reads is never a wrapped one.
C30_NoCounterUnderflow ==
    /\ stats.pending >= 0
    /\ stats.processing >= 0

C26_UnlimitedNeverFull ==
    [][(/\ backend = "memory" /\ max_size = 0
        /\ Len(enq') = Len(enq) + 1) =>
            /\ ledger'[Len(enq')].result # "QueueFull"
            /\ enq'[Len(enq')].pc = "add"]_vars

C26_Witness ==
    /\ backend = "memory" /\ max_size = 0
    /\ stats.pending = MaxJobs
    /\ Cardinality(Accepted) = MaxJobs

\* every job value a worker holds or can come to hold: in a worker, in the
\* channel, in a retry task, in the list
JobsDelivered ==
    {wjob[w] : w \in Workers}
        \cup {chan[i] : i \in 1..Len(chan)}
        \cup backoff
        \cup {FromJson(list[i]) : i \in {n \in 1..Len(list) : ValidJson(list[n])}}
        \cup {FromJson(wraw[w]) : w \in {v \in Workers : ValidJson(wraw[v])}}

\* C27: attempts is incremented exactly once before each handler invocation:
\* the n-th invocation for a job sees attempts = n, and every value of the
\* job in the backend or in a worker carries the number of invocations made so far
\* (a worker between its dequeue and the handler call: one less than the
\* invocation it is about to make).
C27_AttemptsCountInvocations ==
    /\ \A j \in Ids : ledger[j].calls = [n \in 1..Len(ledger[j].calls) |-> n]
    /\ \A job \in JobsDelivered :
        job # NoJob => job.attempts = Len(ledger[job.id].calls)

C27_Witness ==
    \E j \in Ids :
        /\ ledger[j].calls = <<1, 2, 3>>
        /\ \E w \in Workers : wpc[w] = "handling" /\ wjob[w].id = j /\ wjob[w].attempts = 3

\* C28: a worker whose handler returned Retry with attempts left does not
\* itself carry out the re-submission: the step with which it leaves the
\* match puts nothing into the channel or the list and counts nothing, the
\* job is handed over to be re-submitted later, and the worker goes on.
C28_RetryDoesNotHoldWorker ==
    [][\A w \in Workers :
        (/\ wpc[w] = "apply" /\ Disposition(wres[w], wjob[w]) = "requeue"
         /\ wpc'[w] # "apply") =>
            /\ chan' = chan /\ list' = list
            /\ stats' = stats
            /\ wjob'[w] = NoJob]_vars

\* job j waits in the channel or in the list
InBackend(j) ==
    \/ \E i \in 1..Len(chan) : chan[i].id = j
    \/ \E i \in 1..Len(list) : ValidJson(list[i]) /\ FromJson(list[i]).id = j

\* every spawned worker loop is inside a handler invocation
AllWorkersHandling == \A w \in LiveWorkers : wpc[w] = "handling"

\* C24: handler invocations need not return; still, once the workers are
\* started, a job waiting in the channel or the list comes to be handled
\* unless every worker is inside a handler invocation; and in the in-memory
\* backend a worker inside a handler invocation does not hold the lock on
\* the receiver.
C24_HandlerIsolation ==
    /\ \A j \in 1..MaxJobs :
        (started /\ j \in Ids /\ InBackend(j)) ~>
            (AllWorkersHandling \/ \E w \in Workers : wpc[w] = "handling" /\ wjob[w].id = j)
    /\ [](\A w \in Workers : wpc[w] \in {"inc_processing", "handling", "apply"} => rxLock # w)

\* one worker is inside a handler invocation, the other one has taken the
\* next job and is inside its handler too
C24_Witness ==
    /\ workers = MaxWorkers
    /\ \A w \in Workers : wpc[w] = "handling"
    /\ \A v, w \in Workers : v # w => wjob[v].id # wjob[w].id
    /\ \A j \in Ids : ledger[j].rets = <<>>

\* C23: once start_worker has been called, however often, the number of
\* running consumption loops is config.workers.
C23_StartIsIdempotent == started => Cardinality(LiveWorkers) = workers

\* C25: stats() can take its next step in every state (it waits for no
\* producer and no worker), each of its steps leaves the counters, the
\* channel, the list and everything else of the queue as they were, and
\* the value it reads is the counter's.
C25_StatsReadsOnly ==
    /\ []((obs.pc # "idle" \/ obs.calls < MaxStatsCalls) => ENABLED Stats)
    /\ [][obs' # obs => /\ queueVars' = queueVars
                        /\ obs.pc = "idle" => obs'.value.pending = stats.pending
                        /\ obs.pc = "processing" => obs'.value.processing = stats.processing
                        /\ obs.pc = "completed" => obs'.value.completed = stats.completed
                        /\ obs.pc = "failed" => obs'.value.failed = stats.failed]_vars

\* a stats() call that ran while producers and workers were busy has
\* returned: it read pending at 1 and saw the job completed
C25_Witness ==
    /\ obs.pc = "idle" /\ obs.calls = 1
    /\ obs.value.pending = 1 /\ obs.value.completed = 1
    /\ InFlight # {} /\ \E w \in Workers : wpc[w] = "handling"

\* the job's scheduled_at is absent or has passed
Due(job) == job.scheduled_at = None \/ job.scheduled_at[1] <= now

\* C22: a job inside the handler has no scheduled_at or its scheduled_at is
\* not in the future; and a job without scheduled_at at the head of the
\* channel or the list is taken by a worker waiting there.
C22_NotBeforeScheduledAt ==
    /\ \A w \in Workers : wpc[w] = "handling" => Due(wjob[w])
    /\ \A w \in Workers :
        (/\ wpc[w] = "recv" /\ rxLock = w /\ chan # <<>>
         /\ Head(chan).scheduled_at = None) => ENABLED MemRecv(w)
    /\ \A w \in Workers :
        (/\ wpc[w] = "blpop" /\ list # <<>> /\ ValidJson(Head(list))
         /\ FromJson(Head(list)).scheduled_at = None) => ENABLED RedisPop(w)

\* the Redis queue has been given all the calls the in-memory queue was
\* given and has finished
PairDone ==
    /\ twin.set /\ backend = "redis"
    /\ started /\ Quiet /\ Len(enq) = Len(twin.results)

\* C21: given the calls and the handler an in-memory queue was given, the
\* Redis queue returns the same result from every enqueue call, invokes the
\* handler as often per job and with the same attempts values, and ends
\* with the same completed and failed counters.
C21_BackendsAgree ==
    PairDone =>
        /\ \A j \in Ids : /\ ledger[j].result = twin.results[j]
                           /\ ledger[j].calls = twin.calls[j]
        /\ stats.completed = twin.completed
        /\ stats.failed = twin.failed

\* the worker loops inside a handler invocation
Handling == {w \in Workers : wpc[w] = "handling"}

\* C31: once start_worker has been called, processing is at most
\* config.workers and at most config.workers handler invocations are in
\* progress.
C31_ProcessingWithinWorkers ==
    started => /\ stats.processing <= workers
               /\ Cardinality(Handling) <= workers

\* the only worker is inside the handler, processing is 1, and another job
\* waits in the backend
C31_Witness ==
    /\ started /\ workers = 1 /\ MaxWorkers > 1
    /\ stats.processing = 1 /\ Cardinality(Handling) = 1
    /\ chan # <<>> \/ list # <<>>

\* C32: no step decreases completed or failed, and every job is counted at
\* most once in completed and failed together, whatever the number of its
\* attempts.
C32_LifetimeTotals ==
    /\ [][/\ stats'.completed >= stats.completed
          /\ stats'.failed >= stats.failed]_vars
    /\ [](\A j \in Ids : ledger[j].completed + ledger[j].failed <= 1)

\* a job handled twice (Retry, then Success) is counted once in completed,
\* another job once in failed
C32_Witness ==
    /\ stats.completed = 1 /\ stats.failed = 1
    /\ \E j \in Ids : /\ ledger[j].calls = <<1, 2>>
                       /\ ledger[j].rets = <<"Retry", "Success">>
                       /\ ledger[j].completed = 1 /\ ledger[j].failed = 0
    /\ \E j \in Ids : ledger[j].failed = 1 /\ ledger[j].completed = 0

\* the job without its attempts counter
Fields(job) == [job EXCEPT !.attempts = 0]

Waiting ==
    IF backend = "memory" THEN chan
    ELSE [i \in 1..Len(list) |-> IF ValidJson(list[i]) THEN FromJson(list[i]) ELSE NoJob]

\* a step that changes the channel or the list takes the head, and hands
\* it to a worker waiting there, or puts one job at the tail, which is the
\* job whose enqueue or re-submission this step is
FifoStep ==
    /\ chan' # chan =>
        \/ /\ chan # <<>> /\ chan' = Tail(chan)
           /\ \E w \in Workers : wpc[w] = "recv" /\ wjob'[w] = Head(chan)
        \/ /\ Len(chan') = Len(chan) + 1 /\ SubSeq(chan', 1, Len(chan)) = chan
           /\ LET job == chan'[Len(chan')]
              IN  ledger'[job.id].pushes = ledger[job.id].pushes + 1
    /\ list' # list =>
        \/ /\ list # <<>> /\ list' = Tail(list)
           /\ \E w \in Workers : wpc[w] = "blpop" /\ wraw'[w] = Head(list)
        \/ /\ Len(list') = Len(list) + 1 /\ SubSeq(list', 1, Len(list)) = list
           /\ LET job == FromJson(list'[Len(list')])
              IN  ledger'[job.id].pushes = IF job.attempts = 0 THEN 1
                                           ELSE ledger[job.id].pushes + 1

\* of two jobs waiting for their first dequeue, the one whose enqueue call
\* has returned is not behind one whose enqueue call has not
CompletionOrder ==
    \A i, j \in 1..Len(Waiting) :
        (/\ i < j /\ Waiting[i] # NoJob /\ Waiting[j] # NoJob
         /\ Waiting[i].attempts = 0 /\ Waiting[j].attempts = 0
         /\ enq[Waiting[j].id].pc = "done") => enq[Waiting[i].id].pc = "done"

\* C34: the backend is first-in-first-out: jobs leave at the head and enter
\* at the tail, a re-submitted job included, and the jobs wait in the order
\* in which their enqueue calls completed.
C34_FifoByCompletion ==
    /\ [][FifoStep]_vars
    /\ []CompletionOrder

\* C34, amended: the backend is first-in-first-out by insertion: jobs leave
\* at the head and enter at the tail, a re-submitted job included, and an
\* enqueue call has put its job into the backend before it returns Ok.
C34_FifoByInsertion ==
    /\ [][FifoStep]_vars
    /\ [](\A j \in Ids : ledger[j].result = "Ok" => ledger[j].pushes >= 1)

\* a job re-submitted after Retry waits behind a job that was enqueued
\* while it was being handled
C34_Witness ==
    /\ Len(Waiting) = 2
    /\ Waiting[1].attempts = 0 /\ Waiting[2].attempts = 1
    /\ ledger[Waiting[2].id].pushes = 2
    /\ Waiting[2].id < Waiting[1].id

====
